---- MODULE Spec2Model ----
(***************************************************************************)
(* Model of python_server/app.py: the /api/text-to-sql request handler     *)
(* (text_to_sql), its session store (table chat_sessions), the reasoning   *)
(* model it calls and the structured store it queries.                     *)
(*                                                                         *)
(* Text.  A Python str is a sequence of tokens, each token a TLA+ string   *)
(* standing for a run of characters that no pattern of the code can split: *)
(* the empty str is << >>, concatenation is \o.  Python's None is the      *)
(* one-token sequence None, which is no text of the model.  The raw output *)
(* of the reasoning model is a sequence of raw tokens (records): a fence   *)
(* (three backquotes), the word json, a whitespace run, a JSON document or  *)
(* text that is no JSON.                                                   *)
(***************************************************************************)
EXTENDS Integers, Sequences, FiniteSets, TLC

\* ------------------------------------------------------------------ bounds
\* Requests accepted over one run of the server (each slot is reused).
MaxRequests == 3
\* The longest query text tried on the rewrite, in words of QueryWords.
MaxQueryWords == 6

\* --------------------------------------------------------- Python values
None == <<"<None>">>

\* Python truthiness of a value that is None or a str.
Truthy(v) == v # None /\ v # << >>

\* x or y
Or(x, y) == IF Truthy(x) THEN x ELSE y

IsSpace(t) == t \in {" ", "\n"}

RECURSIVE LStrip(_)
LStrip(s) ==
  IF s # << >> /\ IsSpace(Head(s)) THEN LStrip(Tail(s)) ELSE s

RECURSIVE RStrip(_)
RStrip(s) ==
  IF s # << >> /\ IsSpace(s[Len(s)]) THEN RStrip(SubSeq(s, 1, Len(s) - 1)) ELSE s

\* str.strip()
Strip(s) == RStrip(LStrip(s))

StartsWith(s, p) == Len(s) >= Len(p) /\ SubSeq(s, 1, Len(p)) = p

EndsWith(s, p) == Len(s) >= Len(p) /\ SubSeq(s, Len(s) - Len(p) + 1, Len(s)) = p

\* str.replace(old, new): the non-overlapping occurrences of old, found
\* left to right, each replaced by new.
RECURSIVE Replace(_, _, _)
Replace(s, old, new) ==
  IF Len(s) < Len(old) THEN s
  ELSE IF StartsWith(s, old)
       THEN new \o Replace(SubSeq(s, Len(old) + 1, Len(s)), old, new)
       ELSE <<Head(s)>> \o Replace(Tail(s), old, new)

\* ------------------------------------------------- the query rewrite shim
\* Tokens of a query text: " " "bf" ".model" "," "=" "_name" and opaque
\* tokens such as "SELECT".  A character-level match of one of the three
\* patterns in a text built from these tokens starts and ends on token
\* boundaries, so the token-level replace is the character-level one.
PatSpace == <<" ", "bf", ".model", " ">>
RepSpace == <<" ", "bf", ".model", "_name", " ">>
PatComma == <<" ", "bf", ".model", ",">>
RepComma == <<" ", "bf", ".model", "_name", ",">>
PatEq == <<".model", " ", "=">>
RepEq == <<".model", "_name", " ", "=">>

\* Variant of Rewrite without the equality rule.
RewriteNoEquality(q) ==
  Replace(Replace(q, PatSpace, RepSpace), PatComma, RepComma)

Rewrite(q) ==
  Replace(Replace(Replace(q, PatSpace, RepSpace), PatComma, RepComma), PatEq, RepEq)

\* if sql_query: sql_query = sql_query.replace(...) three times
RewriteSql(sql_query) == IF Truthy(sql_query) THEN Rewrite(sql_query) ELSE sql_query

\* ------------------------------------------------------ the decision parser
\* A JSON document: an object with the decision's keys, each present or
\* not, or a value that is no object.
Absent == [has |-> FALSE, v |-> None]
Val(v) == [has |-> TRUE, v |-> v]

NoFields ==
  [action |-> Absent, response |-> Absent, context_update |-> Absent,
   sql_query |-> Absent, manual_link |-> Absent, regulation_ref |-> Absent]

NoDoc == [kind |-> "none", f |-> NoFields]
ArrayDoc == [kind |-> "array", f |-> NoFields]
ObjectDoc(a, r, q, m, g) ==
  [kind |-> "object",
   f |-> [action |-> a, response |-> r, context_update |-> Absent,
          sql_query |-> q, manual_link |-> m, regulation_ref |-> g]]

\* The same object with its context_update key set, a mapping being
\* written as one token.
WithContext(d, c) == [d EXCEPT !.f.context_update = c]
EmptyMapping == <<"{}">>

\* Raw tokens of the reasoning model's output.
Tok(name) == [tok |-> name, doc |-> NoDoc]
Fence == Tok("fence")
JsonWord == Tok("json")
Ws == Tok("ws")
Junk == Tok("junk")
DocTok(d) == [tok |-> "doc", doc |-> d]

RECURSIVE LStripRaw(_)
LStripRaw(s) ==
  IF s # << >> /\ Head(s) = Ws THEN LStripRaw(Tail(s)) ELSE s

RECURSIVE RStripRaw(_)
RStripRaw(s) ==
  IF s # << >> /\ s[Len(s)] = Ws THEN RStripRaw(SubSeq(s, 1, Len(s) - 1)) ELSE s

StripRaw(s) == RStripRaw(LStripRaw(s))

\* Lines 196-203: strip, drop a leading fence with json, then a leading
\* fence, then a trailing fence, strip again.
\* Variant of StripFences that knows the json-tagged opening fence only.
StripFencesJsonOnly(llm_response_str) ==
  LET s0 == StripRaw(llm_response_str)
      s1 == IF StartsWith(s0, <<Fence, JsonWord>>) THEN SubSeq(s0, 3, Len(s0)) ELSE s0
      s3 == IF EndsWith(s1, <<Fence>>) THEN SubSeq(s1, 1, Len(s1) - 1) ELSE s1
  IN  StripRaw(s3)

StripFences(llm_response_str) ==
  LET s0 == StripRaw(llm_response_str)
      s1 == IF StartsWith(s0, <<Fence, JsonWord>>) THEN SubSeq(s0, 3, Len(s0)) ELSE s0
      s2 == IF StartsWith(s1, <<Fence>>) THEN Tail(s1) ELSE s1
      s3 == IF EndsWith(s2, <<Fence>>) THEN SubSeq(s2, 1, Len(s2) - 1) ELSE s2
  IN  StripRaw(s3)

\* json.loads: one JSON document, whitespace around it allowed; anything
\* else raises JSONDecodeError (ok = FALSE).
JsonLoads(json_str) ==
  LET s == StripRaw(json_str)
  IN  IF Len(s) = 1 /\ s[1].tok = "doc"
      THEN [ok |-> TRUE, value |-> s[1].doc]
      ELSE [ok |-> FALSE, value |-> NoDoc]

\* dict.get(key, default)
Get(d, key, default) == IF d.f[key].has THEN d.f[key].v ELSE default

\* Lines 206-216: the fields read from the decoded object.
Decision(llm_json) ==
  [action |-> Get(llm_json, "action", None),
   response_text |-> Get(llm_json, "response", None),
   context_update |-> Get(llm_json, "context_update", EmptyMapping),
   sql_query |-> RewriteSql(Get(llm_json, "sql_query", None)),
   manual_link |-> Get(llm_json, "manual_link", << >>),
   regulation_ref |-> Get(llm_json, "regulation_ref", << >>)]

NoDecision ==
  [action |-> None, response_text |-> None, context_update |-> None,
   sql_query |-> None, manual_link |-> None, regulation_ref |-> None]

\* ---------------------------------------- result rows and their formatting
\* A column value of a row: SQL NULL, a text, or an array (text[]) whose
\* elements are element values.  An element value is a Python object and
\* Str gives its str().
StrElem(t) == [type |-> "str", text |-> t]
IntElem(t) == [type |-> "int", text |-> t]
NoneElem == [type |-> "NoneType", text |-> <<"None">>]
Str(e) == e.text

NullCol == [type |-> "NoneType", str |-> << >>, items |-> << >>]
StrCol(s) == [type |-> "str", str |-> s, items |-> << >>]
ListCol(l) == [type |-> "list", str |-> << >>, items |-> l]

\* A row: the set of its columns and the values of the two columns read.
Row(cols, description, solutions) ==
  [cols |-> cols, description |-> description, solutions |-> solutions]

\* ast.literal_eval of a text.  Literal tokens: "'...'" is a string
\* literal, a digit run an integer literal; "[" "," "]" build a list.
LiteralValue(t) ==
  CASE t = "'check pump'" -> StrElem(<<"check pump">>)
    [] t = "'check pressure'" -> StrElem(<<"check pressure">>)
    [] t = "1" -> IntElem(<<"1">>)
    [] OTHER -> NoneElem

IsLiteral(t) == t \in {"'check pump'", "'check pressure'", "1"}

\* The items of a well-formed list body  lit , lit , ... lit
RECURSIVE IsItems(_)
IsItems(s) ==
  \/ Len(s) = 1 /\ IsLiteral(s[1])
  \/ Len(s) >= 3 /\ IsLiteral(s[1]) /\ s[2] = "," /\ IsItems(SubSeq(s, 3, Len(s)))

RECURSIVE Items(_)
Items(s) ==
  IF Len(s) <= 1 THEN [i \in 1..Len(s) |-> LiteralValue(s[i])]
  ELSE <<LiteralValue(s[1])>> \o Items(SubSeq(s, 3, Len(s)))

\* [ok |-> FALSE] stands for ValueError or SyntaxError.
LiteralEval(s) ==
  LET t == Strip(s)
  IN  IF Len(t) >= 2 /\ t[1] = "[" /\ t[Len(t)] = "]"
         /\ (Len(t) = 2 \/ IsItems(SubSeq(t, 2, Len(t) - 1)))
      THEN [ok |-> TRUE, islist |-> TRUE, items |-> Items(SubSeq(t, 2, Len(t) - 1))]
      ELSE IF Len(t) = 1 /\ IsLiteral(t[1])
           THEN [ok |-> TRUE, islist |-> FALSE, items |-> << >>]
           ELSE [ok |-> FALSE, islist |-> FALSE, items |-> << >>]

\* Lines 238-248: solutions_list from solutions_val.
SolutionsList(solutions_val) ==
  IF solutions_val.type = "list" THEN solutions_val.items
  ELSE IF solutions_val.type = "str"
       THEN LET v == LiteralEval(solutions_val.str)
            IN  IF v.ok /\ v.islist THEN v.items
                ELSE <<StrElem(solutions_val.str)>>
       ELSE << >>

\* "\n".join([f"- {s}" for s in solutions_list])
RECURSIVE Steps(_)
Steps(l) ==
  IF l = << >> THEN << >>
  ELSE <<"- ">> \o Str(Head(l))
       \o (IF Len(l) > 1 THEN <<"\n">> \o Steps(Tail(l)) ELSE << >>)

BlankLine == <<"\n", "\n">>
StepsHeader == BlankLine \o <<"Recommended steps:", "\n">>
ManualNote(manual_link) == BlankLine \o <<"<book> Manual: ">> \o manual_link
RegulationNote(regulation_ref) ==
  BlankLine \o <<"<warning> Gas Safety Regulation: ">> \o regulation_ref

\* Lines 257-261 and 271-274: the annotations appended to a reply.
Annotations(manual_link, regulation_ref) ==
  (IF Truthy(manual_link) THEN ManualNote(manual_link) ELSE << >>)
  \o (IF Truthy(regulation_ref) THEN RegulationNote(regulation_ref) ELSE << >>)

\* Lines 233-235: the two columns read from the first row.
Description(row) == IF "description" \in row.cols THEN row.description ELSE << >>
SolutionsVal(row) == IF "solutions" \in row.cols THEN row.solutions ELSE NullCol

\* Lines 251-261: the reply built from the first row; description.strip()
\* raises AttributeError when the column is NULL (ok = FALSE).
FormatRow(row, manual_link, regulation_ref) ==
  LET description == Description(row)
      solutions_list == SolutionsList(SolutionsVal(row))
  IN  IF description = None THEN [ok |-> FALSE, text |-> << >>]
      ELSE [ok |-> TRUE,
            text |-> Strip(description)
                     \o (IF solutions_list # << >>
                         THEN StepsHeader \o Steps(solutions_list) ELSE << >>)
                     \o Annotations(manual_link, regulation_ref)]

NoMatchMessage == <<"No specific fault code found. Based on the information provided, I'll use my engineering experience to help diagnose the issue.">>
NoQueryMessage == <<"Unable to generate a database query.">>
ClarifyMessage == <<"I'm not sure how to proceed. Could you please clarify?">>
NotApplicable == <<"N/A">>

\* ------------------------------------------------------------- the state
\* Worker threads of the server: each handles one request at a time.
Reqs == {"t1", "t2"}

SessionIds == {<<"s1">>, <<"s2">>}
Questions == {<<"q1">>, <<"q2">>}

VARIABLES
  chat_sessions,  \* committed table chat_sessions: per session_id, whether
                  \* its row exists and the JSON text of its history column
  kb_writes,      \* committed effects of executed statements on other tables
  req,            \* per thread: the handler's position and local variables
  served,         \* requests accepted so far
  completed       \* per session_id: <<question, reply>> of every request
                  \* answered 200, in the order of the answers

vars == <<chat_sessions, kb_writes, req, served, completed>>

Turn(role, content) == [role |-> role, content |-> content]

\* json.dumps(history) and the driver's decoding of the history column.
JsonDumps(history) ==
  [i \in 1..Len(history) |-> <<history[i].role, history[i].content>>]
HistoryFromDb(column) ==
  [i \in 1..Len(column) |-> Turn(column[i][1], column[i][2])]

NoRow == [exists |-> FALSE, history |-> << >>]

NoBody ==
  [response |-> None, sql_query |-> None, session_id |-> None,
   manual_link |-> None, regulation_ref |-> None, action |-> None]

\* What the caller receives: status 0 while the request is unanswered.
NoResult == [status |-> 0, error |-> "", llm_response |-> << >>, body |-> NoBody]

Idle ==
  [pc |-> "idle", question |-> None, session_id |-> None,
   loaded |-> << >>, history |-> << >>, chat_history |-> << >>,
   inserted |-> FALSE, writes |-> {},
   llm_response_str |-> << >>, d |-> NoDecision,
   query_result |-> << >>,
   final_response |-> << >>, sql_query_for_response |-> NotApplicable,
   executed |-> << >>, trace |-> << >>, result |-> NoResult]

InFlight(o) == req[o].pc \notin {"idle", "done"}

\* Where a request stands: Running, or ended Persisted (200), Rejected
\* (400) or Failed (500).
OutcomeOf(rec) ==
  IF rec.pc # "done" THEN "Running"
  ELSE IF rec.result.status = 200 THEN "Persisted"
  ELSE IF rec.result.status = 400 THEN "Rejected"
  ELSE "Failed"

\* Variant of Validate without the check of the question.
ValidateNoQuestion(question, session_id) ==
  IF ~Truthy(session_id) THEN "No session ID provided" ELSE ""

\* Lines 159-163: the error of a request that is refused, "" if accepted.
Validate(question, session_id) ==
  IF ~Truthy(session_id) THEN "No session ID provided"
  ELSE IF ~Truthy(question) THEN "No question provided"
  ELSE ""

\* Variant of LoadedHistory that starts every request from no history.
LoadedHistoryEmpty(row) == << >>

\* Lines 175-178: the history a request starts from.
LoadedHistory(row) ==
  IF row.exists /\ row.history # << >> THEN HistoryFromDb(row.history) ELSE << >>

\* Variant of CommitSessions in which a commit without the UPDATE stores
\* the history the request holds.
CommitSessionsHeld(r, update) ==
  LET sid == req[r].session_id
      row == chat_sessions[sid]
      visible == row.exists \/ req[r].inserted
  IN  [chat_sessions EXCEPT ![sid] =
         [exists |-> visible,
          history |-> IF update.set /\ visible THEN update.history
                      ELSE JsonDumps(req[r].history)]]

\* The table after the transaction of thread r commits: its INSERT if it
\* made one, and its UPDATE (update.set) of the row of its session_id.
CommitSessions(r, update) ==
  LET sid == req[r].session_id
      row == chat_sessions[sid]
      visible == row.exists \/ req[r].inserted
  IN  [chat_sessions EXCEPT ![sid] =
         [exists |-> visible,
          history |-> IF update.set /\ visible THEN update.history ELSE row.history]]

NoUpdate == [set |-> FALSE, history |-> << >>]

\* return jsonify({'error': ...}), 4xx/5xx: the request ends here.
Answer(rec, status, error, llm_response) ==
  [rec EXCEPT !.pc = "done", !.inserted = FALSE, !.writes = {},
              !.result = [status |-> status, error |-> error,
                          llm_response |-> llm_response, body |-> NoBody]]

\* The local state after one more step: trace is the record of the
\* external calls a request has made and of its parse of the model's
\* output, in order, a step that raised marked "!".
Called(rec, call) == [rec EXCEPT !.trace = @ \o <<call>>]

\* Line 298: an exception leaves both with-blocks, the transaction is
\* rolled back, and the caller gets 500 with str(e).
Raise(r, rec, error) ==
  /\ req' = [req EXCEPT ![r] = Answer(rec, 500, error, << >>)]
  /\ UNCHANGED <<chat_sessions, kb_writes, served, completed>>

\* ---------------------------------------------------------- the handler
\* Lines 155-163.
Receive(r, question, session_id) ==
  /\ req[r].pc = "idle"
  /\ served < MaxRequests
  /\ served' = served + 1
  /\ LET start == [Idle EXCEPT !.question = question, !.session_id = session_id]
         error == Validate(question, session_id)
     IN  req' = [req EXCEPT ![r] =
                   IF error # ""
                   THEN [start EXCEPT !.pc = "done",
                                      !.result = [NoResult EXCEPT !.status = 400,
                                                                  !.error = error]]
                   ELSE [start EXCEPT !.pc = "load"]]
  /\ UNCHANGED <<chat_sessions, kb_writes, completed>>

\* Another transaction holds an uncommitted INSERT of this session_id.
InsertPending(r, sid) ==
  \E o \in Reqs \ {r} : InFlight(o) /\ req[o].inserted /\ req[o].session_id = sid

\* Lines 166-184: SELECT the session row; INSERT it if there is none (the
\* INSERT waits while another transaction holds an uncommitted row of the
\* same key); append the user turn.
LoadSession(r) ==
  /\ req[r].pc = "load"
  /\ LET sid == req[r].session_id
         row == chat_sessions[sid]
         history == LoadedHistory(row)
     IN  req' = [req EXCEPT ![r] =
           IF row.exists
           THEN [@ EXCEPT !.pc = "invoke", !.loaded = history,
                          !.history = Append(history, Turn("user", req[r].question)),
                          !.trace = @ \o <<"select">>]
           ELSE IF InsertPending(r, sid)
           THEN [@ EXCEPT !.pc = "insert_wait", !.trace = @ \o <<"select">>]
           ELSE [@ EXCEPT !.pc = "invoke", !.inserted = TRUE, !.loaded = << >>,
                          !.history = <<Turn("user", req[r].question)>>,
                          !.trace = @ \o <<"select", "insert">>]]
  /\ UNCHANGED <<chat_sessions, kb_writes, served, completed>>

\* Lines 179-182, resumed: the other transaction has ended.  If it
\* committed, the key exists and the INSERT raises; else the INSERT is made.
InsertResumed(r) ==
  /\ req[r].pc = "insert_wait"
  /\ ~InsertPending(r, req[r].session_id)
  /\ req' = [req EXCEPT ![r] =
       IF chat_sessions[req[r].session_id].exists
       THEN Answer(Called(req[r], "insert!"), 500, "IntegrityError", << >>)
       ELSE [@ EXCEPT !.pc = "invoke", !.inserted = TRUE, !.loaded = << >>,
                      !.history = <<Turn("user", req[r].question)>>,
                      !.trace = @ \o <<"insert">>]]
  /\ UNCHANGED <<chat_sessions, kb_writes, served, completed>>

\* Lines 166-173: the connection or the SELECT fails.
LoadFault(r) ==
  /\ req[r].pc = "load"
  /\ Raise(r, Called(req[r], "select!"), "OperationalError")

\* Variant of InvokeModel that passes the history as it was loaded.
InvokeModelLoaded(r, output) ==
  /\ req[r].pc = "invoke"
  /\ req' = [req EXCEPT ![r] =
       [@ EXCEPT !.pc = "parse", !.chat_history = JsonDumps(req[r].loaded),
                 !.llm_response_str = output, !.trace = @ \o <<"llm">>]]
  /\ UNCHANGED <<chat_sessions, kb_writes, served, completed>>

\* Lines 187-191: the chain is invoked with the history that ends with the
\* user turn, and returns text.
InvokeModel(r, output) ==
  /\ req[r].pc = "invoke"
  /\ req' = [req EXCEPT ![r] =
       [@ EXCEPT !.pc = "parse", !.chat_history = JsonDumps(req[r].history),
                 !.llm_response_str = output, !.trace = @ \o <<"llm">>]]
  /\ UNCHANGED <<chat_sessions, kb_writes, served, completed>>

\* Lines 187-191: the chain raises.
ModelFault(r) ==
  /\ req[r].pc = "invoke"
  /\ Raise(r, Called(req[r], "llm!"), "ModelError")

\* Lines 194-218: decode the output.  JSONDecodeError returns 500 with the
\* raw output from inside both with-blocks, which therefore exit normally:
\* the transaction is committed.  A document that is no object has no
\* .get: AttributeError, caught at line 298.
ParseDecision(r) ==
  /\ req[r].pc = "parse"
  /\ LET v == JsonLoads(StripFences(req[r].llm_response_str))
     IN  IF ~v.ok
         THEN /\ req' = [req EXCEPT ![r] =
                   Answer(Called(Called(req[r], "parse!"), "commit"), 500,
                          "Failed to decode LLM response JSON.",
                          req[r].llm_response_str)]
              /\ chat_sessions' = CommitSessions(r, NoUpdate)
              /\ kb_writes' = kb_writes \cup req[r].writes
              /\ UNCHANGED <<served, completed>>
         ELSE IF v.value.kind # "object"
         THEN Raise(r, Called(req[r], "parse!"), "AttributeError")
         ELSE /\ req' = [req EXCEPT ![r] =
                   [Called(req[r], "parse")
                      EXCEPT !.pc = "act", !.d = Decision(v.value)]]
              /\ UNCHANGED <<chat_sessions, kb_writes, served, completed>>

\* What the structured store answers to a statement: an error, or rows,
\* with or without an effect of the statement on the store.
QueryError == [kind |-> "error", rows |-> << >>, write |-> FALSE]
QueryRows(rows, write) == [kind |-> "rows", rows |-> rows, write |-> write]
NoOutcome == [kind |-> "none", rows |-> << >>, write |-> FALSE]

\* Variant of Executes without the check of sql_query.
ExecutesAlways(d) == d.action = <<"query">>

\* Lines 227-229: a statement is executed.
Executes(d) == d.action = <<"query">> /\ Truthy(d.sql_query)

Failure(error) == [ok |-> FALSE, error |-> error, text |-> << >>]
Success(text) == [ok |-> TRUE, error |-> "", text |-> text]

\* Variant of NoRowsReply without the no-match message.
NoRowsReplyRaw(response_text) == response_text

\* Line 264: the reply when the statement returned no row.
NoRowsReply(response_text) == Or(response_text, NoMatchMessage)

\* Lines 229-267: the reply of action query.
QueryReply(d, outcome) ==
  IF Truthy(d.sql_query)
  THEN IF outcome.kind = "error" THEN Failure("ProgrammingError")
       ELSE IF outcome.rows # << >>
            THEN LET f == FormatRow(outcome.rows[1], d.manual_link, d.regulation_ref)
                 IN  IF f.ok THEN Success(f.text) ELSE Failure("AttributeError")
            ELSE Success(NoRowsReply(d.response_text))
  ELSE Success(NoQueryMessage)

\* Lines 269-274: None += str raises TypeError.
FallbackReply(d) ==
  LET notes == Annotations(d.manual_link, d.regulation_ref)
  IN  IF notes = << >> THEN Success(d.response_text)
      ELSE IF d.response_text = None THEN Failure("TypeError")
      ELSE Success(d.response_text \o notes)

\* Variant of AskReply that appends the annotations, as FallbackReply does.
AskReplyAnnotated(d) ==
  Success(Or(d.response_text, << >>) \o Annotations(d.manual_link, d.regulation_ref))

\* Lines 276-277: the reply of action ask.
AskReply(d) == Success(d.response_text)

\* Lines 279-280: the reply of any other action.
\* Variant of UnknownReply that refuses an action it does not know.
UnknownReplyRejected(d) == Failure("ValueError")

UnknownReply(d) == Success(Or(d.response_text, ClarifyMessage))

\* Lines 224-280: final_response, or the exception raised on the way.
ActionReply(d, outcome) ==
  IF d.action = <<"query">> THEN QueryReply(d, outcome)
  ELSE IF d.action = <<"fallback_reasoning">> THEN FallbackReply(d)
  ELSE IF d.action = <<"ask">> THEN AskReply(d)
  ELSE UnknownReply(d)

\* Lines 225 and 267: sql_query_for_response.
SqlQueryForResponse(d) ==
  IF d.action = <<"query">> THEN d.sql_query ELSE NotApplicable

\* Lines 223-280: act on the decision; outcomes are the answers the
\* structured store may give to the statement, if one is executed.
Act(r, outcomes) ==
  /\ req[r].pc = "act"
  /\ \E outcome \in (IF Executes(req[r].d) THEN outcomes ELSE {NoOutcome}) :
       LET d == req[r].d
           reply == ActionReply(d, outcome)
           ran == IF Executes(d)
                  THEN [Called(req[r], IF outcome.kind = "error" THEN "query!" ELSE "query")
                          EXCEPT !.executed = @ \o <<d.sql_query>>,
                                 !.query_result = outcome.rows]
                  ELSE req[r]
       IN  IF ~reply.ok
           THEN Raise(r, ran, reply.error)
           ELSE /\ req' = [req EXCEPT ![r] =
                     [ran EXCEPT !.pc = "save",
                                 !.final_response = reply.text,
                                 !.sql_query_for_response = SqlQueryForResponse(d),
                                 !.writes = IF outcome.write
                                            THEN @ \cup {req[r].session_id} ELSE @]]
                /\ UNCHANGED <<chat_sessions, kb_writes, served, completed>>

\* Variant of UpdatedColumn that appends the request's two turns to what
\* the row holds.
UpdatedColumnAppend(row, history) ==
  row.history \o JsonDumps(SubSeq(history, Len(history) - 1, Len(history)))

\* Line 286: SET history = :history, whatever the row holds.
UpdatedColumn(row, history) == JsonDumps(history)

\* Variant of WithAssistant that puts the assistant turn in the place of
\* the last turn.
WithAssistantInPlace(history, final_response) ==
  Append(SubSeq(history, 1, Len(history) - 1), Turn("assistant", final_response))

\* Line 283: the history with the assistant turn.
WithAssistant(history, final_response) ==
  Append(history, Turn("assistant", final_response))

\* Lines 289-296.
Jsonify(rec) ==
  [response |-> rec.final_response, sql_query |-> rec.sql_query_for_response,
   session_id |-> rec.session_id, manual_link |-> rec.d.manual_link,
   regulation_ref |-> rec.d.regulation_ref, action |-> rec.d.action]

\* Lines 282-296: append the assistant turn, UPDATE the row, leave the
\* with-blocks (commit) and answer 200.
SaveHistory(r) ==
  /\ req[r].pc = "save"
  /\ LET sid == req[r].session_id
         history == WithAssistant(req[r].history, req[r].final_response)
         column == UpdatedColumn(chat_sessions[sid], history)
         rec == [Called(Called(req[r], "update"), "commit") EXCEPT !.history = history]
     IN  /\ chat_sessions' = CommitSessions(r, [set |-> TRUE, history |-> column])
         /\ kb_writes' = kb_writes \cup req[r].writes
         /\ req' = [req EXCEPT ![r] =
              [rec EXCEPT !.pc = "done", !.inserted = FALSE, !.writes = {},
                          !.result = [status |-> 200, error |-> "",
                                      llm_response |-> << >>, body |-> Jsonify(rec)]]]
         /\ completed' = [completed EXCEPT ![sid] =
              Append(@, <<req[r].question, req[r].final_response>>)]
  /\ UNCHANGED served

\* Lines 284-287: the UPDATE or the commit fails.
SaveFault(r) ==
  /\ req[r].pc = "save"
  /\ Raise(r, Called(req[r], "update!"), "OperationalError")

\* The thread takes the next request.
Recycle(r) ==
  /\ req[r].pc = "done"
  /\ req' = [req EXCEPT ![r] = Idle]
  /\ UNCHANGED <<chat_sessions, kb_writes, served, completed>>

\* ------------------------------------------------------------ the inputs
\* Request bodies: question and sessionId, each possibly missing or empty.
QuestionInputs == Questions \cup {None, << >>}
SessionInputs == SessionIds \cup {None, << >>}
OneQuestionInputs == {<<"q1">>, None, << >>}

\* Outputs of the reasoning model: a document bare, in a json fence, in a
\* bare fence, or in a json fence with whitespace around it.
Unfenced(d) == <<DocTok(d)>>
JsonFenced(d) == <<Fence, JsonWord, Ws, DocTok(d), Ws, Fence>>
BareFenced(d) == <<Fence, Ws, DocTok(d), Ws, Fence>>
PaddedFenced(d) == <<Ws, Fence, JsonWord, Ws, DocTok(d), Ws, Fence, Ws>>

ActionChoices ==
  {Absent, Val(<<"ask">>), Val(<<"query">>), Val(<<"fallback_reasoning">>),
   Val(<<"escalate">>)}
ResponseChoices == {Absent, Val(<< >>), Val(<<"What type of heating system?">>)}
PlainSql == <<"SELECT", " ", "description", ",", " ", "solutions">>
AliasSql == <<"SELECT", " ", "bf", ".model", " ", "=", " ", "'Logic'">>
SqlChoices == {Absent, Val(<< >>), Val(PlainSql), Val(AliasSql)}
ManualChoices == {Absent, Val(None), Val(<<"http://x/manual.pdf">>)}
RegulationChoices == {Absent, Val(<<"IGEM/UP/1B">>)}

ObjectDocs ==
  {ObjectDoc(a, r, q, m, g) :
     a \in ActionChoices, r \in ResponseChoices, q \in SqlChoices,
     m \in ManualChoices, g \in RegulationChoices}

\* Outputs that are no JSON document: prose, nothing, prose in a fence, a
\* document followed by prose.
JunkOutputs ==
  {<<Junk>>, << >>, <<Fence, JsonWord, Ws, Junk, Ws, Fence>>,
   <<DocTok(ObjectDoc(Val(<<"ask">>), Val(<<"What type of heating system?">>),
                      Absent, Absent, Absent)), Ws, Junk>>}

AllOutputs ==
  {Unfenced(d) : d \in ObjectDocs} \cup {JsonFenced(d) : d \in ObjectDocs}
  \cup {BareFenced(d) : d \in ObjectDocs} \cup {PaddedFenced(d) : d \in ObjectDocs}
  \cup JunkOutputs \cup {Unfenced(ArrayDoc), JsonFenced(ArrayDoc)}

AskDoc ==
  ObjectDoc(Val(<<"ask">>), Val(<<"What type of heating system?">>),
            Val(<< >>), Val(<< >>), Val(<< >>))
QueryDoc ==
  ObjectDoc(Val(<<"query">>), Val(<< >>), Val(AliasSql),
            Val(<<"http://x/manual.pdf">>), Val(<< >>))

CoreOutputs ==
  {Unfenced(AskDoc), JsonFenced(QueryDoc), <<Junk>>, Unfenced(ArrayDoc)}

\* Rows of a result: the description column missing, NULL, empty, padded
\* or plain; the solutions column missing, NULL, an array, or a text.
DescriptionChoices ==
  {Absent, Val(None), Val(<< >>), Val(<<" ", "Pump fault", "\n">>), Val(<<"Pump fault">>)}

PumpSteps == <<StrElem(<<"Check pump">>), StrElem(<<"Check pressure">>)>>

SolutionsChoices ==
  {[has |-> FALSE, v |-> NullCol], [has |-> TRUE, v |-> NullCol],
   [has |-> TRUE, v |-> ListCol(<< >>)], [has |-> TRUE, v |-> ListCol(PumpSteps)],
   [has |-> TRUE, v |-> StrCol(<<"[", "'check pump'", ",", "'check pressure'", "]">>)],
   [has |-> TRUE, v |-> StrCol(<<"[", "]">>)],
   [has |-> TRUE, v |-> StrCol(<<"[", "1", ",", "'check pump'", "]">>)],
   [has |-> TRUE, v |-> StrCol(<<"not-a-list(">>)],
   [has |-> TRUE, v |-> StrCol(<<"1">>)]}

MkRow(dc, sc) ==
  Row({"pdf_url"} \cup (IF dc.has THEN {"description"} ELSE {})
                  \cup (IF sc.has THEN {"solutions"} ELSE {}),
      dc.v, sc.v)

Rows == {MkRow(dc, sc) : dc \in DescriptionChoices, sc \in SolutionsChoices}

PumpRow == Row({"description", "solutions"}, <<"Pump fault">>, ListCol(PumpSteps))
FanRow == Row({"description", "solutions"}, <<"Fan fault">>, NullCol)

AllOutcomes ==
  {QueryError, QueryRows(<< >>, FALSE), QueryRows(<< >>, TRUE),
   QueryRows(<<PumpRow, FanRow>>, FALSE), QueryRows(<<FanRow, PumpRow>>, TRUE)}
  \cup {QueryRows(<<row>>, FALSE) : row \in Rows}

CoreOutcomes ==
  {QueryError, QueryRows(<< >>, FALSE), QueryRows(<<PumpRow, FanRow>>, TRUE)}

\* ------------------------------------------------------ the specifications
NoSessions == [s \in SessionIds |-> NoRow]

Init ==
  /\ chat_sessions = NoSessions
  /\ kb_writes = {}
  /\ req = [r \in Reqs |-> Idle]
  /\ served = 0
  /\ completed = [s \in SessionIds |-> << >>]

\* Concurrent requests on the threads of the server.
Next ==
  \E r \in Reqs :
    \/ \E question \in OneQuestionInputs, session_id \in SessionInputs :
         Receive(r, question, session_id)
    \/ LoadSession(r)
    \/ InsertResumed(r)
    \/ LoadFault(r)
    \/ \E output \in CoreOutputs : InvokeModel(r, output)
    \/ ModelFault(r)
    \/ ParseDecision(r)
    \/ Act(r, CoreOutcomes)
    \/ SaveHistory(r)
    \/ SaveFault(r)
    \/ Recycle(r)

Spec == Init /\ [][Next]_vars

\* Requests handled one after another, by one thread.
NextSeq ==
  \E r \in {"t1"} :
    \/ \E question \in QuestionInputs, session_id \in SessionInputs :
         Receive(r, question, session_id)
    \/ LoadSession(r)
    \/ LoadFault(r)
    \/ \E output \in CoreOutputs : InvokeModel(r, output)
    \/ ModelFault(r)
    \/ ParseDecision(r)
    \/ Act(r, CoreOutcomes)
    \/ SaveHistory(r)
    \/ SaveFault(r)
    \/ Recycle(r)

SpecSeq == Init /\ [][NextSeq]_vars

\* One request, on a store that earlier requests left: no session, a
\* session with an empty history, or a session with one exchange; every
\* output of the reasoning model and every answer of the structured store.
PriorExchange == <<<<"q1">>, <<"What type of heating system?">>>>

InitOne ==
  /\ kb_writes = {}
  /\ req = [r \in Reqs |-> Idle]
  /\ served = 0
  /\ \E n \in {"none", "empty", "one"} :
       /\ chat_sessions =
            [NoSessions EXCEPT ![<<"s1">>] =
               [exists |-> n # "none",
                history |-> IF n = "one"
                            THEN JsonDumps(<<Turn("user", PriorExchange[1]),
                                             Turn("assistant", PriorExchange[2])>>)
                            ELSE << >>]]
       /\ completed =
            [s \in SessionIds |->
               IF n = "one" /\ s = <<"s1">> THEN <<PriorExchange>> ELSE << >>]

NextOne ==
  \E r \in {"t1"} :
    \/ \E question \in OneQuestionInputs, session_id \in SessionInputs :
         Receive(r, question, session_id)
    \/ LoadSession(r)
    \/ LoadFault(r)
    \/ req[r].pc = "invoke" /\ \E output \in AllOutputs : InvokeModel(r, output)
    \/ ModelFault(r)
    \/ ParseDecision(r)
    \/ Act(r, AllOutcomes)
    \/ SaveHistory(r)
    \/ SaveFault(r)

SpecOne == InitOne /\ [][NextOne]_vars

\* ------------------------------------------- the parser, on many outputs
\* Query texts for the rewrite: every text of up to MaxQueryWords words,
\* the words being the pieces the three patterns are made of, so that
\* occurrences of the patterns overlap, touch and share their spaces.
QueryWords == {<<" ">>, <<"bf", ".model">>, <<".model">>, <<",">>, <<"=">>}

RECURSIVE TextsOf(_)
TextsOf(n) ==
  IF n = 0 THEN {<< >>}
  ELSE LET shorter == TextsOf(n - 1)
       IN  shorter \cup {t \o w : t \in shorter, w \in QueryWords}

QueryTexts == TextsOf(MaxQueryWords)

\* Outputs of the reasoning model that ask for one of these texts to be run.
RewriteOutputs ==
  {Unfenced(ObjectDoc(Val(<<"query">>), Absent, Val(q), Absent, Absent)) :
     q \in QueryTexts}

\* A document as the reasoning model may wrap it: bare, in a json-tagged
\* fence or in a bare fence, with or without whitespace outside the
\* fences and between the fences and the document.
Pads == {<< >>, <<Ws>>}
Openers == {<< >>, <<Fence, JsonWord>>, <<Fence>>}
FenceStyles ==
  {[pre |-> outer \o opener \o inner,
    post |-> inner \o (IF opener = << >> THEN << >> ELSE <<Fence>>) \o outer] :
     outer \in Pads, opener \in Openers, inner \in Pads}
Wrap(style, d) == style.pre \o <<DocTok(d)>> \o style.post

ContextChoices == {Absent, Val(<<"{system: combi}">>)}
ParseDocs == {WithContext(d, c) : d \in ObjectDocs, c \in ContextChoices}
FenceOutputs == {Wrap(style, d) : style \in FenceStyles, d \in ParseDocs}

ParseOutputs == RewriteOutputs \cup FenceOutputs

\* One request, from its arrival to the parsed decision.
NextParse ==
  \/ Receive("t1", <<"q1">>, <<"s1">>)
  \/ LoadSession("t1")
  \/ req["t1"].pc = "invoke" /\ \E output \in ParseOutputs : InvokeModel("t1", output)
  \/ ParseDecision("t1")

SpecParse == Init /\ [][NextParse]_vars

\* ================================================================ claims
StoredHistory(s) == HistoryFromDb(chat_sessions[s].history)

\* The history that N answered requests should leave: the i-th question at
\* 2i-1 as a user turn, the i-th reply at 2i as an assistant turn.
ExpectedHistory(done) ==
  [i \in 1..(2 * Len(done)) |->
     IF i % 2 = 1 THEN Turn("user", done[(i + 1) \div 2][1])
     ELSE Turn("assistant", done[i \div 2][2])]

\* C1: when requests are handled one after another, the persisted history
\* of every session holds exactly two turns per request answered 200 on
\* it: the i-th question as the user turn 2i-1 and the i-th reply as the
\* assistant turn 2i.
C1_SessionAppendOrder ==
  \A s \in SessionIds :
    /\ Len(StoredHistory(s)) = 2 * Len(completed[s])
    /\ StoredHistory(s) = ExpectedHistory(completed[s])

\* Three requests answered on one session, with two different questions
\* and two different replies among them.
C1_Witness ==
  \E s \in SessionIds :
    /\ Len(completed[s]) = 3
    /\ completed[s][1][1] # completed[s][2][1]
    /\ completed[s][2][2] # completed[s][3][2]
    /\ Len(StoredHistory(s)) = 6

\* C2: two requests on one session_id that loaded the same history and
\* were both answered 200 leave the history of only one of them: the
\* loaded history plus that request's two turns, two turns short of two
\* turns per answered request.
C2_LostUpdate ==
  \A r1 \in Reqs : \A r2 \in Reqs \ {r1} :
    ( /\ OutcomeOf(req[r1]) = "Persisted"
      /\ OutcomeOf(req[r2]) = "Persisted"
      /\ req[r1].session_id = req[r2].session_id
      /\ req[r1].loaded = req[r2].loaded )
    => LET column == chat_sessions[req[r1].session_id].history
       IN  /\ column \in {JsonDumps(req[r1].history), JsonDumps(req[r2].history)}
           /\ Len(column) = Len(req[r1].loaded) + 2
           /\ Len(column) < 2 * Len(completed[req[r1].session_id])

\* Both threads answered 200 on the same session from the same loaded
\* history, with different replies; the stored history has one reply only.
C2_Witness ==
  \E r1 \in Reqs : \E r2 \in Reqs \ {r1} :
    /\ OutcomeOf(req[r1]) = "Persisted"
    /\ OutcomeOf(req[r2]) = "Persisted"
    /\ req[r1].session_id = req[r2].session_id
    /\ req[r1].loaded = req[r2].loaded
    /\ req[r1].final_response # req[r2].final_response
    /\ chat_sessions[req[r1].session_id].history = JsonDumps(req[r2].history)
    /\ Len(completed[req[r1].session_id]) = 2

\* C3: a step in which a request ends Failed leaves the committed store as
\* it was: no session row created, no turn added, no effect of an executed
\* statement committed.
C3_NoPartialPersistence ==
  [][\A r \in Reqs :
       (OutcomeOf(req[r]) # "Failed" /\ OutcomeOf(req'[r]) = "Failed")
       => (chat_sessions' = chat_sessions /\ kb_writes' = kb_writes)]_vars

\* The output cannot be decoded into a decision: it is no JSON document,
\* or the document is no object.
Undecodable(raw) ==
  LET v == JsonLoads(StripFences(raw))
  IN  ~v.ok \/ v.value.kind # "object"

\* C4: when the output of the reasoning model cannot be decoded into a
\* decision, the step that decodes it ends the request Failed, with no
\* statement executed and no history changed, and the failure payload
\* carries the raw output unchanged.
C4_DecodeFailureReported ==
  [][\A r \in Reqs :
       ( /\ req[r].pc = "parse"
         /\ Undecodable(req[r].llm_response_str)
         /\ req'[r] # req[r] )
       => /\ OutcomeOf(req'[r]) = "Failed"
          /\ req'[r].executed = << >>
          /\ \A s \in SessionIds : chat_sessions'[s].history = chat_sessions[s].history
          /\ req'[r].result.llm_response = req[r].llm_response_str]_vars

InTrace(rec, call) == \E i \in DOMAIN rec.trace : rec.trace[i] = call

\* C5: a request whose question or sessionId is missing or empty is
\* answered with a client error and has made no external call: no read or
\* write of the session store, no call of the reasoning model, no
\* statement executed.
C5_RejectedBeforeCalls ==
  \A r \in Reqs :
    (req[r].pc # "idle" /\ (~Truthy(req[r].question) \/ ~Truthy(req[r].session_id)))
    => /\ OutcomeOf(req[r]) = "Rejected"
       /\ req[r].result.status = 400
       /\ req[r].trace = << >>
       /\ req[r].executed = << >>

\* A request with a session id and an empty question was refused.
C5_Witness ==
  \E r \in Reqs :
    /\ req[r].pc = "done"
    /\ req[r].session_id \in SessionIds
    /\ req[r].question = << >>
    /\ req[r].result.status = 400

\* The request was answered 200 with this reply, and the stored history is
\* the loaded history followed by its question and this reply.
PersistedWith(r, reply) ==
  /\ OutcomeOf(req[r]) = "Persisted"
  /\ req[r].result.body.response = reply
  /\ StoredHistory(req[r].session_id) =
       req[r].loaded \o <<Turn("user", req[r].question), Turn("assistant", reply)>>

\* The request ended because the store refused the history write.
SaveFailed(r) ==
  /\ req[r].trace # << >>
  /\ req[r].trace[Len(req[r].trace)] = "update!"

\* C6: for a decision with action ask, whatever its other fields hold, the
\* final reply is decision.response as it is, no statement is executed,
\* and the request ends Persisted with that reply (unless the store
\* refuses the history write).
C6_AskVerbatim ==
  \A r \in Reqs :
    (req[r].d.action = <<"ask">> /\ req[r].pc \in {"save", "done"})
    => /\ req[r].final_response = req[r].d.response_text
       /\ req[r].executed = << >>
       /\ ~InTrace(req[r], "query")
       /\ req[r].pc = "done"
            => (PersistedWith(r, req[r].d.response_text) \/ SaveFailed(r))

\* An ask decision carrying a query, a manual link and a regulation
\* reference was answered with its response text alone.
C6_Witness ==
  \E r \in Reqs :
    /\ req[r].d.action = <<"ask">>
    /\ Truthy(req[r].d.sql_query)
    /\ Truthy(req[r].d.manual_link)
    /\ Truthy(req[r].d.regulation_ref)
    /\ PersistedWith(r, <<"What type of heating system?">>)

\* The sections of the reply to a query with a row, as the claim lists them.
DescriptionSection(row) ==
  IF "description" \in row.cols /\ row.description # None
  THEN Strip(row.description) ELSE << >>
StepsSection(row) ==
  LET l == SolutionsList(SolutionsVal(row))
  IN  IF l # << >> THEN StepsHeader \o Steps(l) ELSE << >>
ManualSection(m) == IF Truthy(m) THEN ManualNote(m) ELSE << >>
RegulationSection(g) == IF Truthy(g) THEN RegulationNote(g) ELSE << >>

\* C7: for a decision with action query whose non-empty sql_query returned
\* at least one row, the request ends Persisted (unless the store refuses
\* the history write) and the reply is, from the first row alone, the
\* trimmed description if present, then the steps section if the
\* normalized solutions are non-empty, then the manual annotation if
\* manual_link is non-empty, then the regulation annotation if
\* regulation_ref is non-empty.
C7_FormattedReply ==
  \A r \in Reqs :
    ( /\ req[r].d.action = <<"query">>
      /\ Truthy(req[r].d.sql_query)
      /\ InTrace(req[r], "query")
      /\ req[r].query_result # << >>
      /\ req[r].pc = "done" )
    => \/ PersistedWith(r, DescriptionSection(req[r].query_result[1])
                           \o StepsSection(req[r].query_result[1])
                           \o ManualSection(req[r].d.manual_link)
                           \o RegulationSection(req[r].d.regulation_ref))
       \/ SaveFailed(r)

\* C8: for a decision with action query whose non-empty sql_query returned
\* no row, the final reply is decision.response if that is non-empty and
\* the no-match message otherwise, never the empty text, and the request
\* ends Persisted with that reply as the assistant turn (unless the store
\* refuses the history write).
C8_NoRowsFallback ==
  \A r \in Reqs :
    ( /\ req[r].d.action = <<"query">>
      /\ InTrace(req[r], "query")
      /\ req[r].query_result = << >>
      /\ req[r].pc \in {"save", "done"} )
    => LET reply == IF Truthy(req[r].d.response_text)
                    THEN req[r].d.response_text ELSE NoMatchMessage
       IN  /\ req[r].final_response = reply
           /\ req[r].final_response \notin {<< >>, None}
           /\ req[r].pc = "done" => (PersistedWith(r, reply) \/ SaveFailed(r))

\* A query that returned no row, with an empty response text, was answered
\* with the no-match message.
C8_Witness ==
  \E r \in Reqs :
    /\ req[r].d.action = <<"query">>
    /\ req[r].executed # << >>
    /\ req[r].query_result = << >>
    /\ req[r].d.response_text = << >>
    /\ PersistedWith(r, NoMatchMessage)

\* C9: for a decision with action query and an absent or empty sql_query,
\* no statement is executed, the final reply is the unable-to-generate
\* message, and the request does not fail for it: it ends Persisted with
\* the user and assistant turns stored (unless the store refuses the
\* history write).
C9_EmptyQueryNotExecuted ==
  \A r \in Reqs :
    ( /\ req[r].d.action = <<"query">>
      /\ ~Truthy(req[r].d.sql_query)
      /\ req[r].pc \in {"save", "done"} )
    => /\ req[r].executed = << >>
       /\ ~InTrace(req[r], "query")
       /\ ~InTrace(req[r], "query!")
       /\ req[r].final_response = NoQueryMessage
       /\ req[r].pc = "done" => (PersistedWith(r, NoQueryMessage) \/ SaveFailed(r))

\* A query decision without sql_query was answered 200 with the message.
C9_Witness ==
  \E r \in Reqs :
    /\ req[r].d.action = <<"query">>
    /\ req[r].d.sql_query = None
    /\ req[r].executed = << >>
    /\ PersistedWith(r, NoQueryMessage)

\* C10: the sql_query of a 200 response is the rewritten text of the
\* statement executed in the request, and the sentinel N/A whenever no
\* statement was executed.
C10_SqlQueryOrSentinel ==
  \A r \in Reqs :
    OutcomeOf(req[r]) = "Persisted"
    => req[r].result.body.sql_query =
         (IF req[r].executed # << >> THEN req[r].executed[1] ELSE NotApplicable)

\* C11: for a decision with action fallback_reasoning, also one whose
\* response is empty or absent, no statement is executed and the request
\* ends Persisted (unless the store refuses the history write) with the
\* reply decision.response followed by the manual annotation if
\* manual_link is non-empty and the regulation annotation if
\* regulation_ref is non-empty, and nothing else.
C11_FallbackAnnotated ==
  \A r \in Reqs :
    (req[r].d.action = <<"fallback_reasoning">> /\ req[r].pc = "done")
    => LET notes == ManualSection(req[r].d.manual_link)
                    \o RegulationSection(req[r].d.regulation_ref)
           reply == IF notes = << >> THEN req[r].d.response_text
                    ELSE Or(req[r].d.response_text, << >>) \o notes
       IN  /\ req[r].executed = << >>
           /\ ~InTrace(req[r], "query")
           /\ PersistedWith(r, reply) \/ SaveFailed(r)

\* The actions the handler knows.
KnownActions == {<<"ask">>, <<"query">>, <<"fallback_reasoning">>}

\* The request parsed a decision whose action is none of the known ones.
UnknownDecided(r) ==
  InTrace(req[r], "parse") /\ req[r].d.action \notin KnownActions

\* C12: a decision whose action is none of ask, query, fallback_reasoning,
\* an absent action included, is not rejected: the parser keeps the raw
\* action value, no statement is executed, and the request ends Persisted
\* (unless the store refuses the history write) with the reply
\* decision.response if non-empty and otherwise the generic clarification
\* request, the answer carrying the raw action value unchanged.
C12_UnknownActionAnswered ==
  /\ [][\A r \in Reqs :
          LET v == JsonLoads(StripFences(req[r].llm_response_str))
          IN  (/\ req[r].pc = "parse" /\ req'[r].pc # "parse"
               /\ v.ok /\ v.value.kind = "object"
               /\ Get(v.value, "action", None) \notin KnownActions)
              => /\ req'[r].pc = "act"
                 /\ req'[r].d.action = Get(v.value, "action", None)]_vars
  /\ [](\A r \in Reqs :
          (UnknownDecided(r) /\ req[r].pc = "done")
          => /\ req[r].executed = << >>
             /\ ~InTrace(req[r], "query")
             /\ \/ /\ PersistedWith(r, Or(req[r].d.response_text, ClarifyMessage))
                   /\ req[r].result.body.action = req[r].d.action
                \/ SaveFailed(r))

\* A decision without an action and without a response was answered with
\* the clarification request and an absent action.
C12_Witness ==
  \E r \in Reqs :
    /\ UnknownDecided(r)
    /\ req[r].d.action = None
    /\ req[r].d.response_text = None
    /\ PersistedWith(r, ClarifyMessage)
    /\ req[r].result.body.action = None

\* C13: the query rewrite is idempotent: rewriting the rewritten query
\* once more leaves it as it is, also for texts in which occurrences of a
\* pattern overlap or are adjacent.
C13_RewriteIdempotent ==
  \A r \in Reqs :
    (InTrace(req[r], "parse") /\ Truthy(req[r].d.sql_query))
    => Rewrite(req[r].d.sql_query) = req[r].d.sql_query

\* The three substitutions of the rewrite and the orders to apply them in.
RewriteRules ==
  <<[old |-> PatSpace, new |-> RepSpace], [old |-> PatComma, new |-> RepComma],
    [old |-> PatEq, new |-> RepEq]>>
RuleOrders == {o \in [1..3 -> 1..3] : \A i, j \in 1..3 : i # j => o[i] # o[j]}
RewriteInOrder(q, o) ==
  LET apply(t, i) == Replace(t, RewriteRules[o[i]].old, RewriteRules[o[i]].new)
  IN  apply(apply(apply(q, 1), 2), 3)

\* The query text of the output the request is about to parse.
RawSqlQuery(r) ==
  Get(JsonLoads(StripFences(req[r].llm_response_str)).value, "sql_query", None)

\* C17: the three substitutions give the same text in each of their six
\* orders: the query the parser keeps is the query text rewritten in any
\* order, also when occurrences of different patterns overlap.
C17_RewriteOrderIndependent ==
  [][\A r \in Reqs :
       (req[r].pc = "parse" /\ req'[r].pc = "act" /\ Truthy(RawSqlQuery(r)))
       => \A o \in RuleOrders :
            req'[r].d.sql_query = RewriteInOrder(RawSqlQuery(r), o)]_vars

\* A query in which the space-delimited rule and the equality rule match
\* the same alias was parsed and rewritten.
C17_Witness ==
  \E r \in Reqs :
    /\ InTrace(req[r], "parse")
    /\ req[r].d.sql_query = <<" ", "bf", ".model", "_name", " ", "=">>

\* The JSON object of an output that is one object in one of the fence
\* styles, and whether the output is such.
DocOf(raw) == raw[CHOOSE i \in DOMAIN raw : raw[i].tok = "doc"].doc
Wrapped(raw) ==
  /\ \E i \in DOMAIN raw : raw[i].tok = "doc"
  /\ DocOf(raw).kind = "object"
  /\ \E style \in FenceStyles : raw = Wrap(style, DocOf(raw))

\* C14: from a decision object unfenced, in a json-tagged fence or in a
\* bare fence, with any whitespace around, the parser recovers the fields
\* it recovers from the object alone, and a field the object lacks takes
\* its default: context_update the empty mapping, manual_link and
\* regulation_ref the empty string.
C14_FenceStylesAgree ==
  \A r \in Reqs :
    (InTrace(req[r], "llm") /\ req[r].pc # "parse"
     /\ Wrapped(req[r].llm_response_str))
    => LET doc == DocOf(req[r].llm_response_str)
       IN  /\ InTrace(req[r], "parse")
           /\ req[r].d = Decision(JsonLoads(StripFences(Unfenced(doc))).value)
           /\ ~doc.f.context_update.has => req[r].d.context_update = EmptyMapping
           /\ ~doc.f.manual_link.has => req[r].d.manual_link = << >>
           /\ ~doc.f.regulation_ref.has => req[r].d.regulation_ref = << >>
           /\ doc.f.context_update.has
                => req[r].d.context_update = doc.f.context_update.v
           /\ req[r].d.action = Get(doc, "action", None)

\* A decision without context_update, manual_link and regulation_ref, in
\* a bare fence with whitespace inside and outside, was parsed.
C14_Witness ==
  \E r \in Reqs :
    LET raw == req[r].llm_response_str
    IN  /\ InTrace(req[r], "parse")
        /\ Wrapped(raw)
        /\ raw = <<Ws, Fence, Ws, DocTok(DocOf(raw)), Ws, Fence, Ws>>
        /\ ~DocOf(raw).f.context_update.has
        /\ ~DocOf(raw).f.manual_link.has
        /\ ~DocOf(raw).f.regulation_ref.has
        /\ req[r].d.action = <<"query">>
        /\ req[r].d.context_update = EmptyMapping

\* The normalized value is as the policy has it for this column value.
NormalizedAsPolicy(v, l) ==
  /\ v.type = "list" => l = v.items
  /\ v.type = "str"
       => LET e == LiteralEval(v.str)
          IN  IF e.ok /\ e.islist THEN l = e.items
              ELSE l = <<StrElem(v.str)>>

\* C15: for every value of the solutions column of the row a request
\* reads, the value handed to the formatter is an ordered list of
\* strings: a native list as it is, a text that is a list literal that
\* list, any other text the one-element list holding the text; never a
\* raw text and never a list with an element that is no string.
C15_SolutionsListOfStrings ==
  \A r \in Reqs :
    req[r].query_result # << >>
    => LET v == SolutionsVal(req[r].query_result[1])
           l == SolutionsList(v)
       IN  /\ NormalizedAsPolicy(v, l)
           /\ \A i \in DOMAIN l : l[i].type = "str"

\* C16: a request only appends: the history a request writes when it
\* completes is the history it loaded (empty for an unknown session_id)
\* followed by two turns, the user turn with its question and the
\* assistant turn with its final reply, which is the text returned to
\* the caller; the loaded turns are written back as they were.
C16_OnlyAppends ==
  [][\A r \in Reqs :
       (OutcomeOf(req[r]) # "Persisted" /\ OutcomeOf(req'[r]) = "Persisted")
       => LET written == HistoryFromDb(chat_sessions'[req[r].session_id].history)
          IN  /\ written = req[r].loaded
                             \o <<Turn("user", req[r].question),
                                  Turn("assistant", req[r].final_response)>>
              /\ req'[r].result.body.response = req[r].final_response
              /\ req'[r].loaded = req[r].loaded]_vars

\* A request that loaded two turns has completed and the session holds
\* those two turns followed by its own two.
C16_Witness ==
  \E r \in Reqs :
    /\ Len(req[r].loaded) = 2
    /\ PersistedWith(r, req[r].final_response)
    /\ Len(StoredHistory(req[r].session_id)) = 4

\* Turns alternate user, assistant, from a user turn to an assistant turn.
Alternates(history) ==
  /\ Len(history) % 2 = 0
  /\ \A i \in DOMAIN history :
       history[i].role = (IF i % 2 = 1 THEN "user" ELSE "assistant")

\* C18: in every reachable state, whatever the interleaving of the
\* requests and whichever of them fail, the committed history of every
\* session has even length and alternates user, assistant, beginning
\* with user: no user turn is committed without the assistant turn of
\* its request.
C18_CommittedAlternates ==
  \A s \in SessionIds : Alternates(StoredHistory(s))

\* A session holds two exchanges, and a request on it has failed on an
\* output that does not decode, its transaction committed.
C18_Witness ==
  \E s \in SessionIds :
    /\ Len(StoredHistory(s)) = 4
    /\ \E r \in Reqs :
         /\ req[r].session_id = s
         /\ OutcomeOf(req[r]) = "Failed"
         /\ InTrace(req[r], "commit")

\* The place of a step in the handler, a step that raised having the
\* place of the step.
StepRank(step) ==
  CASE step \in {"select", "select!"} -> 1
    [] step \in {"insert", "insert!"} -> 2
    [] step \in {"llm", "llm!"} -> 3
    [] step \in {"parse", "parse!"} -> 4
    [] step \in {"query", "query!"} -> 5
    [] step \in {"update", "update!"} -> 6
    [] OTHER -> 7

\* C19: within one request the steps come in one order and at most once
\* each: the session is loaded, the reasoning model is invoked with the
\* loaded history followed by the user turn, the decision is parsed, at
\* most one query is executed, and only for action query with a
\* non-empty sql_query, and the history is written; the history is not
\* written before the model has answered and the decision is parsed, no
\* query is executed after the history write, and a completed request
\* has made each step but the query.
C19_StepsInOrder ==
  \A r \in Reqs :
    LET rec == req[r]
        t == rec.trace
        querying == InTrace(rec, "query") \/ InTrace(rec, "query!")
        writing == InTrace(rec, "update") \/ InTrace(rec, "update!")
    IN  /\ \A i, j \in DOMAIN t : i < j => StepRank(t[i]) < StepRank(t[j])
        /\ t # << >> => StepRank(t[1]) = 1
        /\ InTrace(rec, "llm")
             => /\ InTrace(rec, "select")
                /\ rec.chat_history
                     = JsonDumps(rec.loaded \o <<Turn("user", rec.question)>>)
        /\ (InTrace(rec, "parse") \/ InTrace(rec, "parse!")) => InTrace(rec, "llm")
        /\ querying <=> Len(rec.executed) = 1
        /\ Len(rec.executed) <= 1
        /\ querying
             => /\ InTrace(rec, "parse")
                /\ rec.d.action = <<"query">>
                /\ Truthy(rec.d.sql_query)
                /\ rec.executed = <<rec.d.sql_query>>
        /\ writing => InTrace(rec, "llm") /\ InTrace(rec, "parse")
        /\ OutcomeOf(rec) = "Persisted"
             => /\ InTrace(rec, "llm") /\ InTrace(rec, "parse")
                /\ SubSeq(t, Len(t) - 1, Len(t)) = <<"update", "commit">>

\* A request has made every step, the query included, and is complete.
C19_Witness ==
  \E r \in Reqs :
    /\ OutcomeOf(req[r]) = "Persisted"
    /\ req[r].trace = <<"select", "insert", "llm", "parse", "query", "update", "commit">>

====
